---- MODULE Spec2Model ----
(***************************************************************************)
(* A model of my_stl::pair (include/my_stl/pair.hpp): a value type with    *)
(* two public data members, first (T1) and second (T2).                    *)
(*                                                                         *)
(* T1 is modelled as an arithmetic type such as int: moving from it is a   *)
(* copy.  T2 is modelled as a class type such as std::string: a moved-from *)
(* T2 object is left in a valid but unspecified state, which is a          *)
(* nondeterministic choice among the values of T2.                         *)
(*                                                                         *)
(* Spec    : construction, assignment, swap, conversion and member writes  *)
(*           on two my_stl::pair objects p, q and one std::pair object s.  *)
(* SpecCmp : the comparison operators applied to three my_stl::pair        *)
(*           objects p, q, r and one std::pair object s of any values.     *)
(***************************************************************************)
EXTENDS Integers, FiniteSets, Sequences, TLC

VARIABLES
    mp,     \* the my_stl::pair objects: object name -> [first, second]
    sp,     \* the std::pair object s: [first, second]
    last    \* the last operation performed, its operands and its result

vars == <<mp, sp, last>>

\* Largest element value; element values are 0..MaxVal.
MaxVal == 1

Elem1 == 0..MaxVal
Elem2 == 0..MaxVal
PairVal == [first : Elem1, second : Elem2]

\* The objects of Spec and of SpecCmp.
Objs == {"p", "q"}
CmpObjs == {"p", "q", "r"}

\* T1() and T2(): value-initialisation (0 for int, the empty string for a string).
T1_default == 0
T2_default == 0

\* Variant: the members are default-initialised and hold what the storage held.
pair_default_uninit == [first |-> MaxVal, second |-> MaxVal]

\* pair() : first(), second()
pair_default == [first |-> T1_default, second |-> T2_default]

InitStore == [k \in Objs |-> pair_default]

\* The record kept in `last`.
Note(op, i, j, src, res, n, pre, link) ==
    [op |-> op, i |-> i, j |-> j, src |-> src, res |-> res, n |-> n,
     pre |-> pre, link |-> link]

NoNote == Note("init", "-", "-", pair_default, FALSE, 0, InitStore, "-")

(***************************************************************************)
(* Element-level operations.                                               *)
(***************************************************************************)
\* A slot of a pair object is the location <<object, member>>.
Rd(st, l) == st[l[1]][l[2]]
Wr(st, l, v) == [st EXCEPT ![l[1]][l[2]] = v]

\* The state of an object after std::move(object) has been consumed:
\* a T1 (int) keeps its value, a T2 is left holding the unspecified value u.
MovedFrom(slot, v, u) == IF slot = "first" THEN v ELSE u

MoveOut(st, l, u) == Wr(st, l, MovedFrom(l[2], Rd(st, l), u))

(***************************************************************************)
(* Constructors of pair (pair.hpp:61-91).  Each returns the value of the   *)
(* constructed object.                                                     *)
(***************************************************************************)
\* pair(const T1& x, const T2& y) : first(x), second(y)
pair_ctor_cref(x, y) == [first |-> x, second |-> y]

\* pair(T1&& x, T2&& y) : first(std::move(x)), second(std::move(y))
pair_ctor_rvalue(x, y) == [first |-> x, second |-> y]

\* Variant: both members initialised from the first argument.
pair_ctor_forward_dup(u1, u2) == [first |-> u1, second |-> u1]

\* pair(U1&& u1, U2&& u2) : first(std::forward<U1>(u1)), second(std::forward<U2>(u2))
pair_ctor_forward(u1, u2) == [first |-> u1, second |-> u2]

\* Variant: second is value-initialised instead of copied.
pair_copy_ctor_first_only(other) == [first |-> other.first, second |-> T2_default]

\* pair(const pair&) = default: member-wise copy
pair_copy_ctor(other) == [first |-> other.first, second |-> other.second]

\* pair(pair&&) = default: member-wise move
pair_move_ctor(other) == [first |-> other.first, second |-> other.second]

\* pair(const std::pair<U1, U2>& other) : first(other.first), second(other.second)
pair_from_std_copy(other) == [first |-> other.first, second |-> other.second]

\* pair(std::pair<U1, U2>&& other) : first(std::forward<U1>(other.first)), ...
pair_from_std_move(other) == [first |-> other.first, second |-> other.second]

\* A pair object after both of its members have been moved from.
moved_pair(v, u) ==
    [first |-> MovedFrom("first", v.first, u),
     second |-> MovedFrom("second", v.second, u)]

(***************************************************************************)
(* Assignment operators of pair (pair.hpp:98-143).  The same-type forms    *)
(* act on the store because target and source may be the same object.      *)
(***************************************************************************)
\* Variant: the assignment of second is missing.
pair_copy_assign_first_only(st, t, o) ==
    IF t # o
    THEN Wr(st, <<t, "first">>, Rd(st, <<o, "first">>))
    ELSE st

\* pair& operator=(const pair& other)
pair_copy_assign(st, t, o) ==
    IF t # o
    THEN LET s1 == Wr(st, <<t, "first">>, Rd(st, <<o, "first">>))
         IN  Wr(s1, <<t, "second">>, Rd(s1, <<o, "second">>))
    ELSE st

\* Variant: the test this != &other is missing.
pair_move_assign_no_guard(st, t, o, u) ==
    LET s1 == MoveOut(Wr(st, <<t, "first">>, Rd(st, <<o, "first">>)),
                      <<o, "first">>, u)
    IN  MoveOut(Wr(s1, <<t, "second">>, Rd(s1, <<o, "second">>)),
                <<o, "second">>, u)

\* pair& operator=(pair&& other) noexcept
pair_move_assign(st, t, o, u) ==
    IF t # o
    THEN LET s1 == MoveOut(Wr(st, <<t, "first">>, Rd(st, <<o, "first">>)),
                           <<o, "first">>, u)
         IN  MoveOut(Wr(s1, <<t, "second">>, Rd(s1, <<o, "second">>)),
                     <<o, "second">>, u)
    ELSE st

\* pair& operator=(std::pair<U1, U2>& other)
pair_assign_std(self, other) ==
    LET s1 == [self EXCEPT !.first = other.first]
    IN  [s1 EXCEPT !.second = other.second]

\* pair& operator=(std::pair<U1, U2>&& other)
pair_move_assign_std(self, other) ==
    LET s1 == [self EXCEPT !.first = other.first]
    IN  [s1 EXCEPT !.second = other.second]

(***************************************************************************)
(* swap (pair.hpp:150-154, 290-293).                                       *)
(***************************************************************************)
\* Variant: b is not given the saved value of a.
std_swap_no_restore(st, a, b, u) ==
    LET s1 == MoveOut(st, a, u)
    IN  MoveOut(Wr(s1, a, Rd(s1, b)), b, u)

\* std::swap(a, b) on two slots: T tmp(std::move(a)); a = std::move(b);
\* b = std::move(tmp).  a and b may be the same slot.
std_swap(st, a, b, u) ==
    LET tmp == Rd(st, a)
        s1 == MoveOut(st, a, u)
        s2 == MoveOut(Wr(s1, a, Rd(s1, b)), b, u)
    IN  Wr(s2, b, tmp)

\* Variant: only the first members are exchanged.
pair_swap_first_only(st, t, o, u) ==
    std_swap(st, <<t, "first">>, <<o, "first">>, u)

\* void pair::swap(pair& other): swap(first, other.first); swap(second, other.second)
pair_swap(st, t, o, u) ==
    LET s1 == std_swap(st, <<t, "first">>, <<o, "first">>, u)
    IN  std_swap(s1, <<t, "second">>, <<o, "second">>, u)

\* void swap(pair& lhs, pair& rhs) { lhs.swap(rhs); }
swap(st, lhs, rhs, u) == pair_swap(st, lhs, rhs, u)

(***************************************************************************)
(* Conversion to std::pair (pair.hpp:157-165).                             *)
(***************************************************************************)
\* Variant: the converted pair's second is value-initialised.
to_std_copy_first_only(self) == [first |-> self.first, second |-> T2_default]

\* operator std::pair<U1, U2>() const & : std::pair<U1, U2>(first, second)
to_std_copy(self) == [first |-> self.first, second |-> self.second]

\* operator std::pair<U1, U2>() && : std::pair<U1, U2>(std::move(first), std::move(second))
to_std_move(self) == [first |-> self.first, second |-> self.second]

(***************************************************************************)
(* The operations of Spec.  A constructor run on object t models the       *)
(* definition of a new object under that name.                             *)
(***************************************************************************)
SwapOps == {"member_swap", "free_swap"}
WriteOps == {"write_first", "write_second"}
FromStdCtorOps == {"ctor_from_std_copy", "ctor_from_std_move"}

Plain(op, t, o, src) == Note(op, t, o, src, FALSE, 0, InitStore, "-")

\* my_stl::pair<T1, T2> t;
DefaultCtor(t) ==
    /\ mp' = [mp EXCEPT ![t] = pair_default]
    /\ last' = Plain("ctor_default", t, "-", pair_default)
    /\ UNCHANGED sp

\* const T1 a; const T2 b; my_stl::pair<T1, T2> t(a, b);
CtorConstRef(t, a, b) ==
    /\ mp' = [mp EXCEPT ![t] = pair_ctor_cref(a, b)]
    /\ last' = Plain("ctor_cref", t, "-", [first |-> a, second |-> b])
    /\ UNCHANGED sp

\* my_stl::pair<T1, T2> t(T1(a), T2(b));
CtorRvalue(t, a, b) ==
    /\ mp' = [mp EXCEPT ![t] = pair_ctor_rvalue(a, b)]
    /\ last' = Plain("ctor_rvalue", t, "-", [first |-> a, second |-> b])
    /\ UNCHANGED sp

\* my_stl::pair<T1, T2> t(a, b); with arguments of other (convertible) types
CtorForward(t, a, b) ==
    /\ mp' = [mp EXCEPT ![t] = pair_ctor_forward(a, b)]
    /\ last' = Plain("ctor_forward", t, "-", [first |-> a, second |-> b])
    /\ UNCHANGED sp

\* my_stl::pair<T1, T2> t(o);
CopyCtor(t, o) ==
    /\ t # o
    /\ mp' = [mp EXCEPT ![t] = pair_copy_ctor(mp[o])]
    /\ last' = Plain("copy_ctor", t, o, mp[o])
    /\ UNCHANGED sp

\* my_stl::pair<T1, T2> t(std::move(o));
MoveCtor(t, o, u) ==
    /\ t # o
    /\ mp' = [mp EXCEPT ![t] = pair_move_ctor(mp[o]), ![o] = moved_pair(mp[o], u)]
    /\ last' = Plain("move_ctor", t, o, mp[o])
    /\ UNCHANGED sp

\* The pair that the std::pair s was converted from by the previous operation.
ConvertedFrom == IF last.op = "to_std_copy" THEN last.i ELSE "-"

\* The store before a construction from a just converted std::pair.
LinkedStore == IF ConvertedFrom = "-" THEN InitStore ELSE mp

\* my_stl::pair<T1, T2> t(s);
CtorFromStdCopy(t) ==
    /\ mp' = [mp EXCEPT ![t] = pair_from_std_copy(sp)]
    /\ last' = Note("ctor_from_std_copy", t, "s", sp, FALSE, 0, LinkedStore, ConvertedFrom)
    /\ UNCHANGED sp

\* my_stl::pair<T1, T2> t(std::move(s));
CtorFromStdMove(t, u) ==
    /\ mp' = [mp EXCEPT ![t] = pair_from_std_move(sp)]
    /\ sp' = moved_pair(sp, u)
    /\ last' = Note("ctor_from_std_move", t, "s", sp, FALSE, 0, LinkedStore, ConvertedFrom)

\* The element assignments that t = o and t = std::move(o) execute, in
\* order: none when this == &other.
assign_steps(t, o) == IF t # o THEN <<"first", "second">> ELSE << >>

\* t = o;  n counts the element assignments executed.
CopyAssign(t, o) ==
    /\ mp' = pair_copy_assign(mp, t, o)
    /\ last' = Note("copy_assign", t, o, mp[o], FALSE, Len(assign_steps(t, o)),
                    InitStore, "-")
    /\ UNCHANGED sp

\* t = std::move(o);
MoveAssign(t, o, u) ==
    /\ mp' = pair_move_assign(mp, t, o, u)
    /\ last' = Note("move_assign", t, o, mp[o], FALSE, Len(assign_steps(t, o)),
                    InitStore, "-")
    /\ UNCHANGED sp

\* t = s;
AssignFromStd(t) ==
    /\ mp' = [mp EXCEPT ![t] = pair_assign_std(mp[t], sp)]
    /\ last' = Plain("assign_std", t, "s", sp)
    /\ UNCHANGED sp

\* t = std::move(s);
MoveAssignFromStd(t, u) ==
    /\ mp' = [mp EXCEPT ![t] = pair_move_assign_std(mp[t], sp)]
    /\ sp' = moved_pair(sp, u)
    /\ last' = Plain("move_assign_std", t, "s", sp)

\* The record of a swap: n counts the consecutive swaps of the same operands
\* (1 or 2) and pre is the store before the first of them.
SwapNote(op, t, o) ==
    IF last.op \in SwapOps /\ last.i = t /\ last.j = o /\ last.n = 1
    THEN Note(op, t, o, mp[o], FALSE, 2, last.pre, "-")
    ELSE Note(op, t, o, mp[o], FALSE, 1, mp, "-")

\* t.swap(o);
MemberSwap(t, o, u) ==
    /\ mp' = pair_swap(mp, t, o, u)
    /\ last' = SwapNote("member_swap", t, o)
    /\ UNCHANGED sp

\* swap(t, o);
FreeSwap(t, o, u) ==
    /\ mp' = swap(mp, t, o, u)
    /\ last' = SwapNote("free_swap", t, o)
    /\ UNCHANGED sp

\* std::pair<T1, T2> s = t;
ToStdCopy(t) ==
    /\ sp' = to_std_copy(mp[t])
    /\ last' = Plain("to_std_copy", t, "s", mp[t])
    /\ UNCHANGED mp

\* std::pair<T1, T2> s = std::move(t);
ToStdMove(t, u) ==
    /\ sp' = to_std_move(mp[t])
    /\ mp' = [mp EXCEPT ![t] = moved_pair(mp[t], u)]
    /\ last' = Plain("to_std_move", t, "s", mp[t])

\* The object that t was copy-constructed from, or that was copy-constructed
\* from t, by the previous operation.
CopyPeer(t) ==
    IF last.op = "copy_ctor" /\ last.i = t THEN last.j
    ELSE IF last.op = "copy_ctor" /\ last.j = t THEN last.i
    ELSE "-"

\* t.first = v;
WriteFirst(t, v) ==
    /\ mp' = Wr(mp, <<t, "first">>, v)
    /\ last' = Note("write_first", t, "-", [first |-> v, second |-> mp[t].second],
                    FALSE, 0, mp, CopyPeer(t))
    /\ UNCHANGED sp

\* t.second = v;
WriteSecond(t, v) ==
    /\ mp' = Wr(mp, <<t, "second">>, v)
    /\ last' = Note("write_second", t, "-", [first |-> mp[t].first, second |-> v],
                    FALSE, 0, mp, CopyPeer(t))
    /\ UNCHANGED sp

\* std::pair<T1, T2> s(a, b);
StdPairCtor(a, b) ==
    /\ sp' = [first |-> a, second |-> b]
    /\ last' = Plain("std_ctor", "s", "-", [first |-> a, second |-> b])
    /\ UNCHANGED mp

(***************************************************************************)
(* make_pair (pair.hpp:172-177) and the tuple interface (pair.hpp:310-345). *)
(***************************************************************************)
\* How an argument is passed to make_pair(T1&& t, T2&& u).
ArgKinds == {"lvalue", "const_lvalue", "rvalue", "ref_wrapper"}

\* A type built on the value type X of the argument.
TypeExpr(const, ref, wrapper) == [const |-> const, ref |-> ref, wrapper |-> wrapper]

\* The template argument deduced for the forwarding reference: X& for an
\* lvalue, const X& for a const lvalue, X for an rvalue,
\* std::reference_wrapper<X> for the temporary std::ref(x).
deduced(k) ==
    CASE k = "lvalue" -> TypeExpr(FALSE, "lvalue", FALSE)
      [] k = "const_lvalue" -> TypeExpr(TRUE, "lvalue", FALSE)
      [] k = "rvalue" -> TypeExpr(FALSE, "none", FALSE)
      [] k = "ref_wrapper" -> TypeExpr(FALSE, "none", TRUE)

\* std::decay_t<T>: the reference and the top-level const are removed.
std_decay(T) == [T EXCEPT !.const = FALSE, !.ref = "none"]

\* unwrap_reference_t<T>: std::reference_wrapper<X> becomes X&.
unwrap_reference(T) ==
    IF T.wrapper THEN [T EXCEPT !.wrapper = FALSE, !.ref = "lvalue"] ELSE T

\* Variant: the reference and the const of the deduced type are kept.
unwrap_ref_no_decay(T) == unwrap_reference(T)

\* unwrap_ref_decay_t<T> = unwrap_reference_t<std::decay_t<T>>
unwrap_ref_decay(T) == unwrap_reference(std_decay(T))

\* Variant: every argument is moved from, as by std::move.
arg_after_moved(slot, k, v, u) == MovedFrom(slot, v, u)

\* The argument after std::forward<T>(arg) has initialised the member: an
\* rvalue has been moved from, an lvalue (or the wrapped object) was copied.
arg_after(slot, k, v, u) == IF k = "rvalue" THEN MovedFrom(slot, v, u) ELSE v

\* make_pair(t, u): pair<...>(std::forward<T1>(t), std::forward<T2>(u)); two
\* rvalues select pair(T1&&, T2&&), anything else the forwarding constructor.
make_pair(k1, k2, t, u) ==
    IF k1 = "rvalue" /\ k2 = "rvalue"
    THEN pair_ctor_rvalue(t, u)
    ELSE pair_ctor_forward(t, u)

\* auto t = my_stl::make_pair(o.first, o.second); with each argument passed
\* as k1, k2 say.  The result is a my_stl::pair<T1, T2>, the new object t,
\* unless an argument is wrapped by std::ref: the result then holds a
\* reference, is another type of pair and is only read (val).
MakePair(t, o, k1, k2, u) ==
    /\ t # o
    /\ mp' = [mp EXCEPT ![t] = IF "ref_wrapper" \in {k1, k2} THEN @
                               ELSE make_pair(k1, k2, mp[o].first, mp[o].second),
                        ![o] = [first |-> arg_after("first", k1, mp[o].first, u),
                                second |-> arg_after("second", k2, mp[o].second, u)]]
    /\ last' = [op |-> "make_pair", i |-> t, j |-> o, src |-> mp[o],
                res |-> FALSE, n |-> 0, pre |-> InitStore, link |-> "-",
                k1 |-> k1, k2 |-> k2, old |-> mp[t],
                val |-> make_pair(k1, k2, mp[o].first, mp[o].second),
                T1 |-> unwrap_ref_decay(deduced(k1)),
                T2 |-> unwrap_ref_decay(deduced(k2))]
    /\ UNCHANGED sp

\* std::tuple_size<my_stl::pair<T1, T2>>::value
tuple_size == 2

\* Variant: the positions are exchanged.
get_swapped(I) == IF I = 0 THEN "second" ELSE "first"

\* std::get<I>(p): if constexpr (I == 0) return p.first; else return p.second;
get(I) == IF I = 0 THEN "first" ELSE "second"

\* std::get<I>(t) = v;  also auto& [a, b] = t; followed by a = v or b = v.
GetWrite(t, I, v) ==
    /\ mp' = Wr(mp, <<t, get(I)>>, v)
    /\ last' = Note("get_write", t, "-", [first |-> v, second |-> v],
                    FALSE, I, mp, "-")
    /\ UNCHANGED sp

\* const auto& x = std::get<I>(t);  src holds the value read.
GetRead(t, I) ==
    /\ last' = Note("get_read", t, "-",
                    [first |-> Rd(mp, <<t, get(I)>>), second |-> Rd(mp, <<t, get(I)>>)],
                    FALSE, I, mp, "-")
    /\ UNCHANGED <<mp, sp>>

Init ==
    /\ mp = InitStore
    /\ sp = pair_default
    /\ last = NoNote

Next ==
    \/ \E t \in Objs : DefaultCtor(t)
    \/ \E t \in Objs, a \in Elem1, b \in Elem2 : CtorConstRef(t, a, b)
    \/ \E t \in Objs, a \in Elem1, b \in Elem2 : CtorRvalue(t, a, b)
    \/ \E t \in Objs, a \in Elem1, b \in Elem2 : CtorForward(t, a, b)
    \/ \E t \in Objs, o \in Objs : CopyCtor(t, o)
    \/ \E t \in Objs, o \in Objs, u \in Elem2 : MoveCtor(t, o, u)
    \/ \E t \in Objs : CtorFromStdCopy(t)
    \/ \E t \in Objs, u \in Elem2 : CtorFromStdMove(t, u)
    \/ \E t \in Objs, o \in Objs : CopyAssign(t, o)
    \/ \E t \in Objs, o \in Objs, u \in Elem2 : MoveAssign(t, o, u)
    \/ \E t \in Objs : AssignFromStd(t)
    \/ \E t \in Objs, u \in Elem2 : MoveAssignFromStd(t, u)
    \/ \E t \in Objs, o \in Objs, u \in Elem2 : MemberSwap(t, o, u)
    \/ \E t \in Objs, o \in Objs, u \in Elem2 : FreeSwap(t, o, u)
    \/ \E t \in Objs : ToStdCopy(t)
    \/ \E t \in Objs, u \in Elem2 : ToStdMove(t, u)
    \/ \E t \in Objs, v \in Elem1 : WriteFirst(t, v)
    \/ \E t \in Objs, v \in Elem2 : WriteSecond(t, v)
    \/ \E a \in Elem1, b \in Elem2 : StdPairCtor(a, b)
    \/ \E t \in Objs, o \in Objs, k1 \in ArgKinds, k2 \in ArgKinds :
           \E u \in IF k2 = "rvalue" THEN Elem2 ELSE {T2_default} :
               MakePair(t, o, k1, k2, u)
    \/ \E t \in Objs, I \in 0 .. (tuple_size - 1), v \in Elem1 : GetWrite(t, I, v)
    \/ \E t \in Objs, I \in 0 .. (tuple_size - 1) : GetRead(t, I)

Spec == Init /\ [][Next]_vars

(***************************************************************************)
(* Comparison operators (pair.hpp:183-283).  Elements are compared with    *)
(* the element types' own == and <, here those of the integers.            *)
(***************************************************************************)
\* Variant: only the first members are compared.
operator_eq_first_only(lhs, rhs) == lhs.first = rhs.first

\* bool operator==(const pair& lhs, const pair& rhs)
operator_eq(lhs, rhs) == lhs.first = rhs.first /\ lhs.second = rhs.second

\* bool operator!=(const pair& lhs, const pair& rhs)
operator_ne(lhs, rhs) == ~operator_eq(lhs, rhs)

\* Variant: the test rhs.first < lhs.first is missing.
operator_lt_no_guard(lhs, rhs) ==
    IF lhs.first < rhs.first THEN TRUE
    ELSE lhs.second < rhs.second

\* bool operator<(const pair& lhs, const pair& rhs)
operator_lt(lhs, rhs) ==
    IF lhs.first < rhs.first THEN TRUE
    ELSE IF rhs.first < lhs.first THEN FALSE
    ELSE lhs.second < rhs.second

\* Variant: the operands of < are not exchanged.
operator_le_unswapped(lhs, rhs) == ~operator_lt(lhs, rhs)

\* bool operator<=(const pair& lhs, const pair& rhs)
operator_le(lhs, rhs) == ~operator_lt(rhs, lhs)

\* bool operator>(const pair& lhs, const pair& rhs)
operator_gt(lhs, rhs) == operator_lt(rhs, lhs)

\* bool operator>=(const pair& lhs, const pair& rhs)
operator_ge(lhs, rhs) == ~operator_lt(lhs, rhs)

\* Mixed comparisons, my_stl::pair on the left and std::pair on the right
\* (suffix _ps), and std::pair on the left (suffix _sp).
operator_eq_ps(lhs, rhs) == lhs.first = rhs.first /\ lhs.second = rhs.second

operator_eq_sp(lhs, rhs) == lhs.first = rhs.first /\ lhs.second = rhs.second

operator_ne_ps(lhs, rhs) == ~operator_eq_ps(lhs, rhs)

operator_ne_sp(lhs, rhs) == ~operator_eq_sp(lhs, rhs)

operator_lt_ps(lhs, rhs) ==
    IF lhs.first < rhs.first THEN TRUE
    ELSE IF rhs.first < lhs.first THEN FALSE
    ELSE lhs.second < rhs.second

operator_lt_sp(lhs, rhs) ==
    IF lhs.first < rhs.first THEN TRUE
    ELSE IF rhs.first < lhs.first THEN FALSE
    ELSE lhs.second < rhs.second

\* Variant: the operands of < are not exchanged.
operator_le_ps_unswapped(lhs, rhs) == ~operator_lt_ps(lhs, rhs)

\* !(rhs < lhs) with rhs a std::pair: the std::pair-on-the-left operator<
operator_le_ps(lhs, rhs) == ~operator_lt_sp(rhs, lhs)

operator_gt_ps(lhs, rhs) == operator_lt_sp(rhs, lhs)

operator_ge_ps(lhs, rhs) == ~operator_lt_ps(lhs, rhs)

\* !(rhs < lhs) with rhs a my_stl::pair: the pair-on-the-left operator<
operator_le_sp(lhs, rhs) == ~operator_lt_ps(rhs, lhs)

operator_gt_sp(lhs, rhs) == operator_lt_ps(rhs, lhs)

operator_ge_sp(lhs, rhs) == ~operator_lt_sp(lhs, rhs)

(***************************************************************************)
(* The operations of SpecCmp: one comparison of two objects.  In a mixed   *)
(* comparison i is the my_stl::pair and "s" the std::pair.                 *)
(***************************************************************************)
Compared(op, i, j, res) ==
    /\ last' = Note(op, i, j, pair_default, res, 0, InitStore, "-")
    /\ UNCHANGED <<mp, sp>>

CmpEq(i, j) == Compared("eq", i, j, operator_eq(mp[i], mp[j]))
CmpNe(i, j) == Compared("ne", i, j, operator_ne(mp[i], mp[j]))
CmpLt(i, j) == Compared("lt", i, j, operator_lt(mp[i], mp[j]))
CmpLe(i, j) == Compared("le", i, j, operator_le(mp[i], mp[j]))
CmpGt(i, j) == Compared("gt", i, j, operator_gt(mp[i], mp[j]))
CmpGe(i, j) == Compared("ge", i, j, operator_ge(mp[i], mp[j]))

CmpEqPS(i) == Compared("eq_ps", i, "s", operator_eq_ps(mp[i], sp))
CmpNePS(i) == Compared("ne_ps", i, "s", operator_ne_ps(mp[i], sp))
CmpLtPS(i) == Compared("lt_ps", i, "s", operator_lt_ps(mp[i], sp))
CmpLePS(i) == Compared("le_ps", i, "s", operator_le_ps(mp[i], sp))
CmpGtPS(i) == Compared("gt_ps", i, "s", operator_gt_ps(mp[i], sp))
CmpGePS(i) == Compared("ge_ps", i, "s", operator_ge_ps(mp[i], sp))

CmpEqSP(i) == Compared("eq_sp", i, "s", operator_eq_sp(sp, mp[i]))
CmpNeSP(i) == Compared("ne_sp", i, "s", operator_ne_sp(sp, mp[i]))
CmpLtSP(i) == Compared("lt_sp", i, "s", operator_lt_sp(sp, mp[i]))
CmpLeSP(i) == Compared("le_sp", i, "s", operator_le_sp(sp, mp[i]))
CmpGtSP(i) == Compared("gt_sp", i, "s", operator_gt_sp(sp, mp[i]))
CmpGeSP(i) == Compared("ge_sp", i, "s", operator_ge_sp(sp, mp[i]))

\* std::set<my_stl::pair<T1, T2>>::insert(v) on the sorted sequence s of the
\* set's elements: std::less calls operator<; v is dropped when an element
\* equivalent to it (neither less than the other) is present.
RECURSIVE set_insert(_, _)
set_insert(s, v) ==
    IF s = << >> THEN <<v>>
    ELSE IF operator_lt(v, Head(s)) THEN <<v>> \o s
    ELSE IF operator_lt(Head(s), v) THEN <<Head(s)>> \o set_insert(Tail(s), v)
    ELSE s

\* std::set<...> pair_set; pair_set.insert(p); pair_set.insert(q);
\* pair_set.insert(r);  The note keeps the elements in iteration order.
SetInsert ==
    /\ last' = [op |-> "set_insert", i |-> "p", j |-> "r", src |-> pair_default,
                res |-> FALSE, n |-> 0, pre |-> InitStore, link |-> "-",
                set |-> set_insert(set_insert(set_insert(<< >>, mp["p"]), mp["q"]),
                                   mp["r"])]
    /\ UNCHANGED <<mp, sp>>

InitCmp ==
    /\ mp \in [CmpObjs -> PairVal]
    /\ sp \in PairVal
    /\ last = NoNote

NextCmp ==
    \/ \E i \in CmpObjs, j \in CmpObjs : CmpEq(i, j)
    \/ \E i \in CmpObjs, j \in CmpObjs : CmpNe(i, j)
    \/ \E i \in CmpObjs, j \in CmpObjs : CmpLt(i, j)
    \/ \E i \in CmpObjs, j \in CmpObjs : CmpLe(i, j)
    \/ \E i \in CmpObjs, j \in CmpObjs : CmpGt(i, j)
    \/ \E i \in CmpObjs, j \in CmpObjs : CmpGe(i, j)
    \/ \E i \in CmpObjs : CmpEqPS(i)
    \/ \E i \in CmpObjs : CmpNePS(i)
    \/ \E i \in CmpObjs : CmpLtPS(i)
    \/ \E i \in CmpObjs : CmpLePS(i)
    \/ \E i \in CmpObjs : CmpGtPS(i)
    \/ \E i \in CmpObjs : CmpGePS(i)
    \/ \E i \in CmpObjs : CmpEqSP(i)
    \/ \E i \in CmpObjs : CmpNeSP(i)
    \/ \E i \in CmpObjs : CmpLtSP(i)
    \/ \E i \in CmpObjs : CmpLeSP(i)
    \/ \E i \in CmpObjs : CmpGtSP(i)
    \/ \E i \in CmpObjs : CmpGeSP(i)
    \/ SetInsert

SpecCmp == InitCmp /\ [][NextCmp]_vars

(***************************************************************************)
(* SpecExc: the operations of pair on element types whose constructors and *)
(* assignments may throw, like ThrowingType of test_with_std.cpp:35-58.    *)
(* The input fail names the slot whose element operation throws: "none",   *)
(* "first" or "second".  A failed element operation leaves its target      *)
(* element as it was (ThrowingType throws before it writes).  A source of   *)
(* another type (my_stl::pair<U1, U2>, std::pair<U1, U2>) is an input      *)
(* holding the value v.                                                    *)
(***************************************************************************)
Fails == {"none", "first", "second"}

\* The operations declared noexcept (pair.hpp:67, 77, 84, 91, 107, 150, 291).
NoexceptOps ==
    {"ctor_rvalue", "move_ctor", "ctor_convert_move", "ctor_from_std_move",
     "move_assign", "member_swap", "free_swap"}

ExcCtorOps ==
    {"ctor_default", "ctor_cref", "ctor_rvalue", "ctor_forward", "copy_ctor",
     "move_ctor", "ctor_convert_copy", "ctor_convert_move",
     "ctor_from_std_copy", "ctor_from_std_move"}

ExcAssignOps ==
    {"copy_assign", "move_assign", "convert_assign", "convert_move_assign",
     "assign_std", "move_assign_std"}

\* How an operation ends when the element operation of slot fail throws:
\* an exception that leaves a noexcept function calls std::terminate.
Outcome(op, fail) ==
    IF fail = "none" THEN "returned"
    ELSE IF op \in NoexceptOps THEN "terminated"
    ELSE "threw"

\* The exception thrown by the failing element operation
\* (ThrowingType: "Construction failed", "Copy failed", "Assignment failed").
ElementException(op, fail) ==
    IF fail = "none" THEN "-"
    ELSE IF op = "ctor_default" THEN "construction_failed"
    ELSE IF op \in ExcAssignOps THEN "assignment_failed"
    ELSE "copy_failed"

\* The exception the caller of the pair operation receives: the pair has no
\* try block, so it is the element's exception or none.
CallerException(op, fail) ==
    IF Outcome(op, fail) = "threw" THEN ElementException(op, fail) ELSE "-"

Zero2 == [first |-> 0, second |-> 0]

\* Members of the new object whose construction completed: first(...) is
\* initialised before second(...).
Constructed(fail) ==
    [first |-> IF fail = "first" THEN 0 ELSE 1,
     second |-> IF fail = "none" THEN 1 ELSE 0]

\* Variant: the member already constructed is not destroyed.
Unwound_leak(op, fail) == Zero2

\* Destructor runs on the members of the new object before the caller sees
\* the exception: unwinding destroys the members already constructed.
Unwound(op, fail) ==
    IF Outcome(op, fail) = "threw"
    THEN [first |-> IF fail = "second" THEN 1 ELSE 0, second |-> 0]
    ELSE Zero2

\* The record kept in `last` by the operations of SpecExc.
ExcNote(op, t, o, src, old, fail) ==
    [op |-> op, i |-> t, j |-> o, src |-> src, res |-> FALSE, n |-> 0,
     pre |-> InitStore, link |-> "-",
     old |-> old, fail |-> fail, out |-> Outcome(op, fail),
     thrown |-> ElementException(op, fail), exc |-> CallerException(op, fail),
     made |-> Constructed(IF op \in ExcCtorOps THEN fail ELSE "none"),
     gone |-> IF op \in ExcCtorOps THEN Unwound(op, fail) ELSE Zero2]

NoExcNote == ExcNote("init", "-", "-", pair_default, pair_default, "none")

\* After std::terminate nothing runs.
Running == last.out # "terminated"

\* A source object after a construction or assignment that moves from it and
\* fails in slot fail: the members reached so far have been moved from.
moved_upto(v, fail, u) ==
    IF fail = "first" THEN v
    ELSE IF fail = "second" THEN [v EXCEPT !.first = MovedFrom("first", v.first, u)]
    ELSE moved_pair(v, u)

\* Variant: second is assigned before first.
assign_upto_second_first(self, v, fail) ==
    IF fail = "second" THEN self
    ELSE IF fail = "first" THEN [self EXCEPT !.second = v.second]
    ELSE [first |-> v.first, second |-> v.second]

\* first = x; second = y; stopped by the element assignment that throws.
assign_upto(self, v, fail) ==
    IF fail = "first" THEN self
    ELSE IF fail = "second" THEN [self EXCEPT !.first = v.first]
    ELSE [first |-> v.first, second |-> v.second]

\* A constructor that only reads its source value v.
ExcCtorFrom(op, t, o, v, nv, fail) ==
    /\ Running
    /\ mp' = IF fail = "none" THEN [mp EXCEPT ![t] = nv] ELSE mp
    /\ last' = ExcNote(op, t, o, v, mp[t], fail)
    /\ UNCHANGED sp

ExcDefaultCtor(t, fail) ==
    ExcCtorFrom("ctor_default", t, "-", pair_default, pair_default, fail)

ExcCtorConstRef(t, a, b, fail) ==
    ExcCtorFrom("ctor_cref", t, "-", [first |-> a, second |-> b],
                pair_ctor_cref(a, b), fail)

ExcCtorRvalue(t, a, b, fail) ==
    ExcCtorFrom("ctor_rvalue", t, "-", [first |-> a, second |-> b],
                pair_ctor_rvalue(a, b), fail)

ExcCtorForward(t, a, b, fail) ==
    ExcCtorFrom("ctor_forward", t, "-", [first |-> a, second |-> b],
                pair_ctor_forward(a, b), fail)

ExcCopyCtor(t, o, fail) ==
    /\ t # o
    /\ ExcCtorFrom("copy_ctor", t, o, mp[o], pair_copy_ctor(mp[o]), fail)

\* my_stl::pair<T1, T2> t(std::move(o));
ExcMoveCtor(t, o, fail, u) ==
    /\ t # o
    /\ Running
    /\ mp' = IF fail = "none"
             THEN [mp EXCEPT ![t] = pair_move_ctor(mp[o]), ![o] = moved_pair(mp[o], u)]
             ELSE [mp EXCEPT ![o] = moved_upto(mp[o], fail, u)]
    /\ last' = ExcNote("move_ctor", t, o, mp[o], mp[t], fail)
    /\ UNCHANGED sp

\* pair(const pair<U1, U2>& other) : first(other.first), second(other.second)
pair_convert_copy(other) == [first |-> other.first, second |-> other.second]

\* pair(pair<U1, U2>&& other) : first(std::move(other.first)), second(std::move(other.second))
pair_convert_move(other) == [first |-> other.first, second |-> other.second]

\* my_stl::pair<T1, T2> t(x); with x a my_stl::pair<U1, U2> holding v
ExcCtorConvertCopy(t, v, fail) ==
    ExcCtorFrom("ctor_convert_copy", t, "-", v, pair_convert_copy(v), fail)

\* my_stl::pair<T1, T2> t(my_stl::pair<U1, U2>(...)); the source is a temporary
ExcCtorConvertMove(t, v, fail) ==
    ExcCtorFrom("ctor_convert_move", t, "-", v, pair_convert_move(v), fail)

\* my_stl::pair<T1, T2> t(x); with x a std::pair<U1, U2> holding v
ExcCtorFromStdCopy(t, v, fail) ==
    ExcCtorFrom("ctor_from_std_copy", t, "-", v, pair_from_std_copy(v), fail)

\* my_stl::pair<T1, T2> t(std::pair<U1, U2>(...)); the source is a temporary
ExcCtorFromStdMove(t, v, fail) ==
    ExcCtorFrom("ctor_from_std_move", t, "-", v, pair_from_std_move(v), fail)

\* t = o;  No element is assigned when t and o are the same object.
ExcCopyAssign(t, o, fail) ==
    /\ Running
    /\ t = o => fail = "none"
    /\ mp' = IF fail = "none" THEN pair_copy_assign(mp, t, o)
             ELSE [mp EXCEPT ![t] = assign_upto(mp[t], mp[o], fail)]
    /\ last' = ExcNote("copy_assign", t, o, mp[o], mp[t], fail)
    /\ UNCHANGED sp

\* t = std::move(o);
ExcMoveAssign(t, o, fail, u) ==
    /\ Running
    /\ t = o => fail = "none"
    /\ mp' = IF fail = "none" THEN pair_move_assign(mp, t, o, u)
             ELSE [mp EXCEPT ![t] = assign_upto(mp[t], mp[o], fail),
                             ![o] = moved_upto(mp[o], fail, u)]
    /\ last' = ExcNote("move_assign", t, o, mp[o], mp[t], fail)
    /\ UNCHANGED sp

\* pair& operator=(const pair<U1, U2>& other)
pair_convert_assign(self, other) ==
    LET s1 == [self EXCEPT !.first = other.first]
    IN  [s1 EXCEPT !.second = other.second]

\* pair& operator=(pair<U1, U2>&& other)
pair_convert_move_assign(self, other) ==
    LET s1 == [self EXCEPT !.first = other.first]
    IN  [s1 EXCEPT !.second = other.second]

\* An assignment from a source of another type holding v.
ExcAssignFrom(op, t, o, v, nv, fail) ==
    /\ Running
    /\ mp' = [mp EXCEPT ![t] = IF fail = "none" THEN nv
                              ELSE assign_upto(mp[t], v, fail)]
    /\ last' = ExcNote(op, t, o, v, mp[t], fail)

\* t = x; with x a my_stl::pair<U1, U2> holding v
ExcConvertAssign(t, v, fail) ==
    /\ ExcAssignFrom("convert_assign", t, "-", v, pair_convert_assign(mp[t], v), fail)
    /\ UNCHANGED sp

\* t = my_stl::pair<U1, U2>(...); the source is a temporary
ExcConvertMoveAssign(t, v, fail) ==
    /\ ExcAssignFrom("convert_move_assign", t, "-", v,
                     pair_convert_move_assign(mp[t], v), fail)
    /\ UNCHANGED sp

\* t = x; with x a std::pair<U1, U2> holding v
ExcAssignFromStd(t, v, fail) ==
    /\ ExcAssignFrom("assign_std", t, "-", v, pair_assign_std(mp[t], v), fail)
    /\ UNCHANGED sp

\* t = std::pair<U1, U2>(...); the source is a temporary
ExcMoveAssignFromStd(t, v, fail) ==
    /\ ExcAssignFrom("move_assign_std", t, "-", v, pair_move_assign_std(mp[t], v), fail)
    /\ UNCHANGED sp

\* std::swap(a, b) stopped by T tmp(std::move(a)) throwing: nothing is written.
\* t.swap(o) reaches the second members only after the first were exchanged.
swap_upto(st, t, o, fail, u) ==
    IF fail = "first" THEN st
    ELSE IF fail = "second" THEN std_swap(st, <<t, "first">>, <<o, "first">>, u)
    ELSE pair_swap(st, t, o, u)

ExcMemberSwap(t, o, fail, u) ==
    /\ Running
    /\ mp' = swap_upto(mp, t, o, fail, u)
    /\ last' = ExcNote("member_swap", t, o, mp[o], mp[t], fail)
    /\ UNCHANGED sp

ExcFreeSwap(t, o, fail, u) ==
    /\ Running
    /\ mp' = swap_upto(mp, t, o, fail, u)
    /\ last' = ExcNote("free_swap", t, o, mp[o], mp[t], fail)
    /\ UNCHANGED sp

InitExc ==
    /\ mp = InitStore
    /\ sp = pair_default
    /\ last = NoExcNote

NextExc ==
    \/ \E t \in Objs, f \in Fails : ExcDefaultCtor(t, f)
    \/ \E t \in Objs, a \in Elem1, b \in Elem2, f \in Fails : ExcCtorConstRef(t, a, b, f)
    \/ \E t \in Objs, a \in Elem1, b \in Elem2, f \in Fails : ExcCtorRvalue(t, a, b, f)
    \/ \E t \in Objs, a \in Elem1, b \in Elem2, f \in Fails : ExcCtorForward(t, a, b, f)
    \/ \E t \in Objs, o \in Objs, f \in Fails : ExcCopyCtor(t, o, f)
    \/ \E t \in Objs, o \in Objs, f \in Fails, u \in Elem2 : ExcMoveCtor(t, o, f, u)
    \/ \E t \in Objs, v \in PairVal, f \in Fails : ExcCtorConvertCopy(t, v, f)
    \/ \E t \in Objs, v \in PairVal, f \in Fails : ExcCtorConvertMove(t, v, f)
    \/ \E t \in Objs, v \in PairVal, f \in Fails : ExcCtorFromStdCopy(t, v, f)
    \/ \E t \in Objs, v \in PairVal, f \in Fails : ExcCtorFromStdMove(t, v, f)
    \/ \E t \in Objs, o \in Objs, f \in Fails : ExcCopyAssign(t, o, f)
    \/ \E t \in Objs, o \in Objs, f \in Fails, u \in Elem2 : ExcMoveAssign(t, o, f, u)
    \/ \E t \in Objs, v \in PairVal, f \in Fails : ExcConvertAssign(t, v, f)
    \/ \E t \in Objs, v \in PairVal, f \in Fails : ExcConvertMoveAssign(t, v, f)
    \/ \E t \in Objs, v \in PairVal, f \in Fails : ExcAssignFromStd(t, v, f)
    \/ \E t \in Objs, v \in PairVal, f \in Fails : ExcMoveAssignFromStd(t, v, f)
    \/ \E t \in Objs, o \in Objs, f \in Fails, u \in Elem2 : ExcMemberSwap(t, o, f, u)
    \/ \E t \in Objs, o \in Objs, f \in Fails, u \in Elem2 : ExcFreeSwap(t, o, f, u)

SpecExc == InitExc /\ [][NextExc]_vars


(***************************************************************************)
(* SpecSize: the size of an instantiation my_stl::pair<T1, T2>.  An element*)
(* type is described by its size, its alignment, whether it is an empty    *)
(* class and whether it is final.  The types are those of                  *)
(* test_pair_ebco.cpp:25-33 and the arithmetic types the tests use, with   *)
(* a 4-byte int and an 8-byte double.                                      *)
(***************************************************************************)
Type(name, size, align, empty, final) ==
    [name |-> name, size |-> size, align |-> align, empty |-> empty, final |-> final]

Empty1 == Type("Empty1", 1, 1, TRUE, FALSE)
Empty2 == Type("Empty2", 1, 1, TRUE, FALSE)
Empty3 == Type("Empty3", 1, 1, TRUE, FALSE)
FinalEmpty == Type("FinalEmpty", 1, 1, TRUE, TRUE)
NonEmpty == Type("NonEmpty", 4, 4, FALSE, FALSE)
IntType == Type("int", 4, 4, FALSE, FALSE)
DoubleType == Type("double", 8, 8, FALSE, FALSE)

Types == {Empty1, Empty2, Empty3, FinalEmpty, NonEmpty, IntType, DoubleType}

\* T& and T[N] for a type T of Types: empty and final still describe T.
RefType(T) ==
    [name |-> T.name, size |-> 8, align |-> 8, empty |-> T.empty,
     final |-> T.final, kind |-> "reference"]
ArrayType(T, N) ==
    [name |-> T.name, size |-> N * T.size, align |-> T.align, empty |-> T.empty,
     final |-> T.final, kind |-> "array"]

\* "object" for the class and arithmetic types of Types.
TypeKind(T) == IF "kind" \in DOMAIN T THEN T.kind ELSE "object"

\* std::is_empty_v<T>, std::is_final_v<T>: false for a type that is not a class.
std_is_empty(T) == TypeKind(T) = "object" /\ T.empty
std_is_final(T) == TypeKind(T) = "object" /\ T.final

\* Variant: the test !std::is_final_v<T> is missing.
is_empty_ignoring_final(T) == std_is_empty(T)

\* is_empty_and_non_final<T>: std::is_empty_v<T> && !std::is_final_v<T>
is_empty_and_non_final(T) == std_is_empty(T) /\ ~std_is_final(T)

RoundUp(n, a) == ((n + a - 1) \div a) * a

Max(a, b) == IF a >= b THEN a ELSE b

\* The offset after the data members ms have been placed from offset off on,
\* each at the next multiple of its alignment.
RECURSIVE PlaceMembers(_, _)
PlaceMembers(off, ms) ==
    IF ms = << >> THEN off
    ELSE PlaceMembers(RoundUp(off, Head(ms).align) + Head(ms).size, Tail(ms))

RECURSIVE MaxAlign(_)
MaxAlign(ms) == IF ms = << >> THEN 1 ELSE Max(Head(ms).align, MaxAlign(Tail(ms)))

\* sizeof of a class whose non-static data members are ms, in this order.
StructSize(ms) ==
    LET end == PlaceMembers(0, ms)
    IN  RoundUp(IF end = 0 THEN 1 ELSE end, MaxAlign(ms))

\* Variant: the class is polymorphic and starts with a pointer to its vtable.
pair_sizeof_with_vptr(T1, T2) ==
    StructSize(<<Type("vptr", 8, 8, FALSE, FALSE), T1, T2>>)

\* Variant: an empty element takes no storage, final or not.
pair_sizeof_elide_empty(T1, T2) ==
    StructSize(SelectSeq(<<T1, T2>>, LAMBDA T : ~T.empty))

\* sizeof(my_stl::pair<T1, T2>): the class has the two data members
\* first_type first; second_type second; and no base class.
pair_sizeof(T1, T2) == StructSize(<<T1, T2>>)

\* sizeof(struct { T1 a; T2 b; }): the naive two-field layout.
naive_sizeof(T1, T2) == StructSize(<<T1, T2>>)

\* The record kept in `last` by the operations of SpecSize.
SizeNote(op, T1, T2, res) == [op |-> op, T1 |-> T1, T2 |-> T2, res |-> res]

\* sizeof(my_stl::pair<T1, T2>)
SizeofPair ==
    /\ last' = SizeNote("sizeof_pair", last.T1, last.T2, pair_sizeof(last.T1, last.T2))
    /\ UNCHANGED <<mp, sp>>

\* sizeof of the naive struct of the same two types
SizeofNaive ==
    /\ last' = SizeNote("sizeof_naive", last.T1, last.T2, naive_sizeof(last.T1, last.T2))
    /\ UNCHANGED <<mp, sp>>

\* The instantiation my_stl::pair<T1, T2> for any two of the types.
InitSize ==
    /\ mp = InitStore
    /\ sp = pair_default
    /\ \E T1 \in Types, T2 \in Types : last = SizeNote("instantiate", T1, T2, 0)

NextSize ==
    \/ SizeofPair
    \/ SizeofNaive

SpecSize == InitSize /\ [][NextSize]_vars


(***************************************************************************)
(* std::hash<my_stl::pair<T1, T2>> (pair.hpp:347-354) on pair<int, int>.   *)
(* size_t is an unsigned integer of SizeTBits bits; int has the same       *)
(* width, two's complement.                                                *)
(***************************************************************************)
SizeTBits == 3

RECURSIVE Pow2(_)
Pow2(n) == IF n = 0 THEN 1 ELSE 2 * Pow2(n - 1)

SizeTMod == Pow2(SizeTBits)
SizeT == 0 .. (SizeTMod - 1)
IntVals == (0 - Pow2(SizeTBits - 1)) .. (Pow2(SizeTBits - 1) - 1)
IntPair == [first : IntVals, second : IntVals]

\* std::hash<int>{}(a): the value converted to size_t.
std_hash_int(a) == a % SizeTMod

\* operator^ on two unsigned values.
RECURSIVE BitXor(_, _)
BitXor(a, b) ==
    IF a = 0 THEN b
    ELSE IF b = 0 THEN a
    ELSE (((a % 2) + (b % 2)) % 2) + 2 * BitXor(a \div 2, b \div 2)

\* Variant: the shifted value keeps its top bit.
shl1_wide(h) == h * 2

\* h << 1 on size_t.
shl1(h) == (h * 2) % SizeTMod

\* Variant: the two element hashes are combined without the shift.
hash_pair_no_shift(p) ==
    BitXor(std_hash_int(p.first), std_hash_int(p.second))

\* size_t operator()(const my_stl::pair<T1, T2>& p) const
hash_pair(p) ==
    LET h1 == std_hash_int(p.first)
        h2 == std_hash_int(p.second)
    IN  BitXor(h1, shl1(h2))

NoHash == 0 - 1
HashNote(op, i, pre, h) == [op |-> op, i |-> i, pre |-> pre, h |-> h]

\* Variant: the hasher takes its argument by reference and resets second.
Hasher_resets_second(i) ==
    /\ last' = HashNote("hash", i, mp[i],
                        [last.h EXCEPT ![i] = hash_pair(mp[i])])
    /\ mp' = [mp EXCEPT ![i].second = 0]
    /\ UNCHANGED sp

\* auto h = hasher(p): the argument is a const reference.
Hasher(i) ==
    /\ last' = HashNote("hash", i, mp[i],
                        [last.h EXCEPT ![i] = hash_pair(mp[i])])
    /\ UNCHANGED <<mp, sp>>

InitHash ==
    /\ mp \in [Objs -> IntPair]
    /\ sp = pair_default
    /\ last = HashNote("none", "p", mp["p"], [o \in Objs |-> NoHash])

NextHash == \E i \in Objs : Hasher(i)

SpecHash == InitHash /\ [][NextHash]_vars


(***************************************************************************)
(* SpecImpl: detail::pair_impl<T1, T2> (pair_impl.hpp), the storage class   *)
(* with the four layouts of pair_impl_base, next to my_stl::pair<T1, T2>.  *)
(* The objects p, q are my_stl::pair objects; ip, iq are pair_impl objects *)
(* on which the same operations are run.                                   *)
(***************************************************************************)
LayoutTypes ==
    Types \cup {RefType(IntType), RefType(Empty1),
                ArrayType(IntType, 3), ArrayType(Empty1, 3)}

Layout(status, first, second) ==
    [status |-> status, first |-> first, second |-> second]

\* pair_impl_base<T1, T2, FirstEmpty, SecondEmpty>: a slot is the private
\* base class T1 (T2) when its flag is set and the data member first_
\* (second_) otherwise.  Naming one class twice as a direct base is ill-formed.
pair_impl_base(T1, T2, FirstEmpty, SecondEmpty) ==
    Layout(IF FirstEmpty /\ SecondEmpty /\ T1 = T2 THEN "ill_formed" ELSE "ok",
           IF FirstEmpty THEN "base" ELSE "member",
           IF SecondEmpty THEN "base" ELSE "member")

\* The specialisation of pair_impl selected for <T1, T2>: <T1[N1], T2[N2]>
\* (its static_assert fails), <T1&, T2>, <T1, T2&>, <T1&, T2&>, or the
\* primary template.
pair_impl(T1, T2) ==
    IF TypeKind(T1) = "array" /\ TypeKind(T2) = "array"
    THEN [pair_impl_base(T1, T2, FALSE, FALSE) EXCEPT !.status = "rejected"]
    ELSE IF TypeKind(T1) = "reference" \/ TypeKind(T2) = "reference"
    THEN pair_impl_base(T1, T2, FALSE, FALSE)
    ELSE pair_impl_base(T1, T2, is_empty_and_non_final(T1),
                        is_empty_and_non_final(T2))

\* my_stl::pair<T1, T2>: the data members first and second, no base class.
pair_layout(T1, T2) == Layout("ok", "member", "member")

\* The record kept in `last` by the operations of SpecImpl.
ImplNote(op, i, j, T1, T2, impl, facade, e1, e2, val, kept) ==
    [op |-> op, i |-> i, j |-> j, T1 |-> T1, T2 |-> T2, impl |-> impl,
     facade |-> facade, e1 |-> e1, e2 |-> e2, val |-> val, kept |-> kept]

\* The same record after another operation on the same instantiation.
ImplStep(op, i, j, val, kept) ==
    ImplNote(op, i, j, last.T1, last.T2, last.impl, last.facade,
             last.e1, last.e2, val, kept)

\* The values of an element type: an empty class has one value.
Val(T) == IF T.empty THEN {0} ELSE Elem1

\* The pair_impl object that accompanies the my_stl::pair object t.
Impl(t) == IF t = "p" THEN "ip" ELSE "iq"

\* The sub-object that first() returns: the base class T1 (return *this) or
\* the member first_.
first_loc(L) == IF L.first = "base" THEN "T1" ELSE "first_"

\* Variant: second() of the layouts with a member returns first_.
second_loc_first_member(L) == IF L.second = "base" THEN "T2" ELSE "first_"

\* The sub-object that second() returns: the base class T2 or the member second_.
second_loc(L) == IF L.second = "base" THEN "T2" ELSE "second_"

\* pair_impl_base(U1&& u1, U2&& u2): the first slot is initialised from u1,
\* the second from u2.
impl_ctor(L, u1, u2) == (second_loc(L) :> u2) @@ (first_loc(L) :> u1)

impl_first(x, L) == x[first_loc(L)]
impl_second(x, L) == x[second_loc(L)]

\* pair_impl& operator=(const pair_impl& other)
impl_copy_assign(st, L, t, o) ==
    IF t # o
    THEN LET s1 == [st EXCEPT ![t][first_loc(L)] = impl_first(st[o], L)]
         IN  [s1 EXCEPT ![t][second_loc(L)] = impl_second(s1[o], L)]
    ELSE st

\* pair_impl& operator=(pair_impl&& other); the element types of SpecImpl are
\* trivially movable: a moved-from element keeps its value.
impl_move_assign(st, L, t, o) ==
    IF t # o
    THEN LET s1 == [st EXCEPT ![t][first_loc(L)] = impl_first(st[o], L)]
         IN  [s1 EXCEPT ![t][second_loc(L)] = impl_second(s1[o], L)]
    ELSE st

\* std::swap on the sub-object loc of t and o.
impl_swap_at(st, t, o, loc) ==
    LET tmp == st[t][loc]
        s1 == [st EXCEPT ![t][loc] = st[o][loc]]
    IN  [s1 EXCEPT ![o][loc] = tmp]

\* void pair_impl::swap(pair_impl& other): base_type::swap(other)
impl_swap(st, L, t, o) ==
    impl_swap_at(impl_swap_at(st, t, o, first_loc(L)), t, o, second_loc(L))

NoVal == [pair |-> pair_default, impl |-> pair_default]
NoKept == [pair |-> 0, impl |-> 0]

\* pair_impl<T1, T2> and my_stl::pair<T1, T2> are instantiated.
Instantiate ==
    /\ last.op = "declare"
    /\ last' = ImplNote("instantiate", "-", "-", last.T1, last.T2,
                        pair_impl(last.T1, last.T2), pair_layout(last.T1, last.T2),
                        is_empty_and_non_final(last.T1),
                        is_empty_and_non_final(last.T2), NoVal, NoKept)
    /\ UNCHANGED <<mp, sp>>

\* Objects exist once the instantiation compiled; the operations below are
\* run for element types that are objects.
Usable ==
    /\ last.op # "declare"
    /\ last.impl.status = "ok"
    /\ TypeKind(last.T1) = "object"
    /\ TypeKind(last.T2) = "object"

\* t = my_stl::pair<T1, T2>(a, b); Impl(t) = pair_impl<T1, T2>(a, b);
ImplConstruct(t, a, b) ==
    /\ Usable
    /\ mp' = [mp EXCEPT ![t] = pair_ctor_forward(a, b),
                        ![Impl(t)] = impl_ctor(last.impl, a, b)]
    /\ last' = ImplStep("construct", t, "-", NoVal, NoKept)
    /\ UNCHANGED sp

\* t = o; on both kinds of object
ImplCopyAssign(t, o) ==
    /\ Usable
    /\ mp' = impl_copy_assign(pair_copy_assign(mp, t, o), last.impl, Impl(t), Impl(o))
    /\ last' = ImplStep("copy_assign", t, o, NoVal, NoKept)
    /\ UNCHANGED sp

\* t = std::move(o); on both kinds of object
ImplMoveAssign(t, o) ==
    /\ Usable
    /\ mp' = impl_move_assign(pair_move_assign(mp, t, o, mp[o].second),
                              last.impl, Impl(t), Impl(o))
    /\ last' = ImplStep("move_assign", t, o, NoVal, NoKept)
    /\ UNCHANGED sp

\* t.swap(o); on both kinds of object
ImplSwap(t, o) ==
    /\ Usable
    /\ mp' = impl_swap(pair_swap(mp, t, o, mp[o].second), last.impl, Impl(t), Impl(o))
    /\ last' = ImplStep("swap", t, o, NoVal, NoKept)
    /\ UNCHANGED sp

\* t.first = v; Impl(t).first() = v;  kept holds second before the write.
ImplWriteFirst(t, v) ==
    /\ Usable
    /\ mp' = [Wr(mp, <<t, "first">>, v) EXCEPT ![Impl(t)][first_loc(last.impl)] = v]
    /\ last' = ImplStep("write_first", t, "-",
                        [pair |-> [first |-> v, second |-> v],
                         impl |-> [first |-> v, second |-> v]],
                        [pair |-> mp[t].second,
                         impl |-> impl_second(mp[Impl(t)], last.impl)])
    /\ UNCHANGED sp

\* t.second = v; Impl(t).second() = v;  kept holds first before the write.
ImplWriteSecond(t, v) ==
    /\ Usable
    /\ mp' = [Wr(mp, <<t, "second">>, v) EXCEPT ![Impl(t)][second_loc(last.impl)] = v]
    /\ last' = ImplStep("write_second", t, "-",
                        [pair |-> [first |-> v, second |-> v],
                         impl |-> [first |-> v, second |-> v]],
                        [pair |-> mp[t].first,
                         impl |-> impl_first(mp[Impl(t)], last.impl)])
    /\ UNCHANGED sp

\* Reads t.first, t.second and Impl(t).first(), Impl(t).second().
ImplRead(t) ==
    /\ Usable
    /\ last' = ImplStep("read", t, "-",
                        [pair |-> mp[t],
                         impl |-> [first |-> impl_first(mp[Impl(t)], last.impl),
                                   second |-> impl_second(mp[Impl(t)], last.impl)]],
                        NoKept)
    /\ UNCHANGED <<mp, sp>>

\* my_stl::pair<T1, T2> p{}, q{}; pair_impl<T1, T2> ip{}, iq{};
InitImpl ==
    /\ sp = pair_default
    /\ \E T1 \in LayoutTypes, T2 \in LayoutTypes :
           /\ last = ImplNote("declare", "-", "-", T1, T2, Layout("-", "-", "-"),
                              Layout("-", "-", "-"), FALSE, FALSE, NoVal, NoKept)
           /\ mp = [k \in {"p", "q", "ip", "iq"} |->
                       IF k \in Objs THEN pair_default
                       ELSE impl_ctor(pair_impl(T1, T2), 0, 0)]

NextImpl ==
    \/ Instantiate
    \/ \E t \in Objs, a \in Val(last.T1), b \in Val(last.T2) : ImplConstruct(t, a, b)
    \/ \E t \in Objs, o \in Objs : ImplCopyAssign(t, o)
    \/ \E t \in Objs, o \in Objs : ImplMoveAssign(t, o)
    \/ \E t \in Objs, o \in Objs : ImplSwap(t, o)
    \/ \E t \in Objs, v \in Val(last.T1) : ImplWriteFirst(t, v)
    \/ \E t \in Objs, v \in Val(last.T2) : ImplWriteSecond(t, v)
    \/ \E t \in Objs : ImplRead(t)

SpecImpl == InitImpl /\ [][NextImpl]_vars


(***************************************************************************)
(* Properties.                                                             *)
(***************************************************************************)
TwoArgCtorOps == {"ctor_cref", "ctor_rvalue", "ctor_forward"}
AssignOps == {"copy_assign", "move_assign", "assign_std", "move_assign_std"}

\* C1: a pair constructed from (a, b) by the const-ref, the rvalue or the
\* forwarding two-argument constructor reads back first = a and second = b.
C1_CtorReadsBack ==
    last.op \in TwoArgCtorOps =>
        /\ mp[last.i].first = last.src.first
        /\ mp[last.i].second = last.src.second

\* A forwarding construction from two different, non-default values.
C1_Witness ==
    /\ last.op = "ctor_forward"
    /\ last.src.first = MaxVal
    /\ last.src.second # last.src.first
    /\ mp[last.i].first = MaxVal

\* C2: swap(p, q) of two distinct pairs, member or free, leaves p holding q's
\* previous (first, second) and q holding p's previous (first, second).
C2_SwapExchanges ==
    (last.op \in SwapOps /\ last.i # last.j) =>
        /\ mp[last.i] = last.src
        /\ last.n = 1 => mp[last.j] = last.pre[last.i]
        /\ last.n = 1 => mp[last.i] = last.pre[last.j]

\* A swap of two pairs that differed in both slots.
C2_Witness ==
    /\ last.op \in SwapOps
    /\ last.i # last.j
    /\ last.n = 1
    /\ last.pre[last.i].first # last.pre[last.j].first
    /\ last.pre[last.i].second # last.pre[last.j].second
    /\ mp[last.i] = last.pre[last.j]

\* C3: swap(p, p) leaves p unchanged, and swap(p, q) performed twice restores
\* both p and q.
C3_SwapSelfAndTwice ==
    /\ (last.op \in SwapOps /\ last.i = last.j /\ last.n = 1) => mp = last.pre
    /\ (last.op \in SwapOps /\ last.n = 2) => mp = last.pre

\* The second of two swaps of two distinct pairs holding different values.
C3_Witness ==
    /\ last.op \in SwapOps
    /\ last.n = 2
    /\ last.i # last.j
    /\ last.pre[last.i].first # last.pre[last.j].first
    /\ last.pre[last.i].second # last.pre[last.j].second
    /\ mp = last.pre

\* C4: p == q returns true if and only if p.first == q.first and
\* p.second == q.second.
C4_EqPairwise ==
    last.op = "eq" =>
        (last.res <=> (mp[last.i].first = mp[last.j].first
                       /\ mp[last.i].second = mp[last.j].second))

\* An == of two pairs with equal firsts and different seconds.
C4_Witness ==
    /\ last.op = "eq"
    /\ mp[last.i].first = mp[last.j].first
    /\ mp[last.i].second # mp[last.j].second
    /\ ~last.res

\* Lexicographic order of (first, second).
LexLess(a, b) ==
    \/ a.first < b.first
    \/ a.first = b.first /\ a.second < b.second

Incomparable(a, b) == ~operator_lt(a, b) /\ ~operator_lt(b, a)

\* C5: operator< on pairs is lexicographic comparison of (first, second) and a
\* strict weak ordering: irreflexive, asymmetric, transitive, with transitive
\* incomparability.
C5_LtLexStrictWeak ==
    /\ last.op = "lt" => (last.res <=> LexLess(mp[last.i], mp[last.j]))
    /\ \A a \in DOMAIN mp : ~operator_lt(mp[a], mp[a])
    /\ \A a, b \in DOMAIN mp :
           operator_lt(mp[a], mp[b]) => ~operator_lt(mp[b], mp[a])
    /\ \A a, b, c \in DOMAIN mp :
           (operator_lt(mp[a], mp[b]) /\ operator_lt(mp[b], mp[c]))
               => operator_lt(mp[a], mp[c])
    /\ \A a, b, c \in DOMAIN mp :
           (Incomparable(mp[a], mp[b]) /\ Incomparable(mp[b], mp[c]))
               => Incomparable(mp[a], mp[c])

\* A < decided by the seconds, among three objects that form a chain.
C5_Witness ==
    /\ last.op = "lt"
    /\ last.res
    /\ mp[last.i].first = mp[last.j].first
    /\ \E c \in DOMAIN mp :
           /\ operator_lt(mp[last.j], mp[c])
           /\ mp[c].second < mp[last.j].second

\* C6: the derived operators agree with == and <: != is not ==, <= is not
\* (q < p), > is (q < p), >= is not (p < q), and <= is (< or ==).
C6_DerivedOperators ==
    LET p == mp[last.i]
        q == mp[last.j]
    IN  /\ last.op = "ne" => (last.res <=> ~operator_eq(p, q))
        /\ last.op = "le" => (last.res <=> ~operator_lt(q, p))
        /\ last.op = "gt" => (last.res <=> operator_lt(q, p))
        /\ last.op = "ge" => (last.res <=> ~operator_lt(p, q))
        /\ last.op = "le" => (last.res <=> (operator_lt(p, q) \/ operator_eq(p, q)))

\* A <= of two distinct objects that hold equal values.
C6_Witness ==
    /\ last.op = "le"
    /\ last.i # last.j
    /\ mp[last.i] = mp[last.j]
    /\ last.res

\* C7: each of the six mixed comparison operators, in both operand orders,
\* gives the result of the same-type operator applied to p and the pair
\* holding s's values.
C7_MixedComparisons ==
    LET p == IF last.i \in DOMAIN mp THEN mp[last.i] ELSE pair_default
    IN  /\ last.op = "eq_ps" => (last.res <=> operator_eq(p, sp))
        /\ last.op = "ne_ps" => (last.res <=> operator_ne(p, sp))
        /\ last.op = "lt_ps" => (last.res <=> operator_lt(p, sp))
        /\ last.op = "le_ps" => (last.res <=> operator_le(p, sp))
        /\ last.op = "gt_ps" => (last.res <=> operator_gt(p, sp))
        /\ last.op = "ge_ps" => (last.res <=> operator_ge(p, sp))
        /\ last.op = "eq_sp" => (last.res <=> operator_eq(sp, p))
        /\ last.op = "ne_sp" => (last.res <=> operator_ne(sp, p))
        /\ last.op = "lt_sp" => (last.res <=> operator_lt(sp, p))
        /\ last.op = "le_sp" => (last.res <=> operator_le(sp, p))
        /\ last.op = "gt_sp" => (last.res <=> operator_gt(sp, p))
        /\ last.op = "ge_sp" => (last.res <=> operator_ge(sp, p))

\* A pair <= std::pair that holds because the pair is strictly less.
C7_Witness ==
    /\ last.op = "le_ps"
    /\ last.res
    /\ mp[last.i].first = sp.first
    /\ mp[last.i].second < sp.second

\* C8: the lvalue conversion to std::pair leaves p unchanged, and a pair
\* constructed from the converted std::pair is equal to p.
C8_RoundTrip ==
    /\ last.op = "to_std_copy" => mp[last.i] = last.src
    /\ (last.op \in FromStdCtorOps /\ last.link # "-") =>
           /\ operator_eq(mp[last.i], last.pre[last.link])
           /\ last.link # last.i => mp[last.link] = last.pre[last.link]

\* A pair constructed from the conversion of another pair whose slots differ.
C8_Witness ==
    /\ last.op \in FromStdCtorOps
    /\ last.link # "-"
    /\ last.link # last.i
    /\ mp[last.link].first # mp[last.link].second
    /\ mp[last.i] = mp[last.link]

\* C9: a copy-constructed pair holds the source's first and second, the source
\* is unchanged, and a later write to a slot of one is not seen in the other.
C9_CopyCtor ==
    /\ last.op = "copy_ctor" =>
           /\ mp[last.i].first = last.src.first
           /\ mp[last.i].second = last.src.second
           /\ mp[last.j] = last.src
    /\ (last.op \in WriteOps /\ last.link # "-") =>
           /\ mp[last.link] = last.pre[last.link]
           /\ mp[last.i] = last.src

\* A write to one of a copy and its source that makes the two differ.
C9_Witness ==
    /\ last.op \in WriteOps
    /\ last.link # "-"
    /\ last.pre[last.i] = last.pre[last.link]
    /\ mp[last.i] # mp[last.link]

\* C10: after target = source (copy or move, from a my_stl::pair or from a
\* std::pair) target holds the values source held before; the copy forms
\* leave source unchanged.
C10_Assign ==
    last.op \in AssignOps =>
        /\ mp[last.i].first = last.src.first
        /\ mp[last.i].second = last.src.second
        /\ last.op = "copy_assign" => mp[last.j] = last.src
        /\ last.op = "assign_std" => sp = last.src

\* A copy assignment between two objects of a value with different slots.
C10_Witness ==
    /\ last.op = "copy_assign"
    /\ last.i # last.j
    /\ last.src.first # last.src.second
    /\ mp[last.i] = mp[last.j]

\* C11: assignment writes first before second and is not atomic.  When the
\* assignment of second fails the target holds the new first and its old
\* second; when the assignment of first fails it holds both old values; each
\* slot holds its old or its new value, and the source of a copy assignment is
\* unchanged.
C11_AssignNotAtomic ==
    (last.op \in ExcAssignOps /\ last.fail # "none") =>
        /\ last.fail = "second" =>
               /\ mp[last.i].first = last.src.first
               /\ mp[last.i].second = last.old.second
        /\ last.fail = "first" => mp[last.i] = last.old
        /\ mp[last.i].first \in {last.old.first, last.src.first}
        /\ mp[last.i].second \in {last.old.second, last.src.second}
        /\ last.op = "copy_assign" => mp[last.j] = last.src

\* A copy assignment that failed on second, between values that differ in
\* both slots.
C11_Witness ==
    /\ last.op = "copy_assign"
    /\ last.fail = "second"
    /\ last.old.first # last.src.first
    /\ last.old.second # last.src.second
    /\ mp[last.i] = [first |-> last.src.first, second |-> last.old.second]

\* C12: whenever an element operation throws during a pair operation, the
\* same exception reaches the caller of the pair operation and the program
\* is not ended.
C12_FailurePropagates ==
    last.fail # "none" =>
        /\ last.out = "threw"
        /\ last.exc = last.thrown

\* C13: when an element copy throws during copy construction the exception
\* reaches the caller, every member of the new object that was constructed
\* has been destroyed exactly once, and the source is unchanged.
C13_CopyCtorUnwinds ==
    (last.op = "copy_ctor" /\ last.fail # "none") =>
        /\ last.out = "threw"
        /\ last.exc = last.thrown
        /\ last.gone.first = last.made.first
        /\ last.gone.second = last.made.second
        /\ mp[last.j] = last.src
        /\ mp[last.i] = last.old

\* A copy construction whose second member throws after first was constructed.
C13_Witness ==
    /\ last.op = "copy_ctor"
    /\ last.fail = "second"
    /\ last.made.first = 1
    /\ last.gone.first = 1
    /\ last.src # pair_default

\* C14: a my_stl::pair whose two element types are both stateless and
\* non-final has a size of at most 2 bytes.
C14_BothEmptySize ==
    (/\ last.op = "sizeof_pair"
     /\ is_empty_and_non_final(last.T1)
     /\ is_empty_and_non_final(last.T2)) => last.res <= 2

\* The size of pair<Empty1, Empty2>.
C14_Witness ==
    /\ last.op = "sizeof_pair"
    /\ last.T1 = Empty1
    /\ last.T2 = Empty2
    /\ last.res = 2

\* One element type is stateless and non-final and the other is int.
OneEmptyOneInt(T1, T2) ==
    \/ is_empty_and_non_final(T1) /\ T2 = IntType
    \/ T1 = IntType /\ is_empty_and_non_final(T2)

\* C15: with one stateless non-final element type and one 4-byte integer the
\* pair is strictly smaller than the naive struct of the two types (8 bytes).
C15_SmallerThanNaive ==
    (last.op = "sizeof_pair" /\ OneEmptyOneInt(last.T1, last.T2)) =>
        /\ last.res < naive_sizeof(last.T1, last.T2)
        /\ last.res < 8

\* C16: pair<E, int> and pair<int, E>, E empty and non-final, have a size of
\* at most sizeof(int) + alignof(int).
C16_OneEmptySize ==
    (last.op = "sizeof_pair" /\ OneEmptyOneInt(last.T1, last.T2)) =>
        last.res <= IntType.size + IntType.align

\* The size of pair<int, Empty1>.
C16_Witness ==
    /\ last.op = "sizeof_pair"
    /\ last.T1 = IntType
    /\ last.T2 = Empty1
    /\ last.res = IntType.size + IntType.align

Bit(n, k) == (n \div Pow2(k)) % 2

\* C18: the hash of a pair is h1 XOR (h2 << 1): a size_t value whose bit 0
\* is bit 0 of h1 and whose bit k > 0 is bit k of h1 XOR bit k-1 of h2; the
\* top bit of h2 is discarded.
C18_HashCombine ==
    last.op = "hash" =>
        LET p == mp[last.i]
            h1 == std_hash_int(p.first)
            h2 == std_hash_int(p.second)
            r == last.h[last.i]
        IN  /\ r \in SizeT
            /\ \A k \in 0 .. (SizeTBits - 1) :
                   Bit(r, k) =
                       (Bit(h1, k) + (IF k = 0 THEN 0 ELSE Bit(h2, k - 1))) % 2

\* A pair whose second element hash has its top bit set has been hashed.
C18_Witness ==
    /\ last.op = "hash"
    /\ mp[last.i].first > 0
    /\ Bit(std_hash_int(mp[last.i].second), SizeTBits - 1) = 1
    /\ last.h[last.i] \in SizeT

C20_SwappedHashDiffers ==
    \A i \in Objs, j \in Objs :
        (/\ last.h[i] # NoHash
         /\ last.h[j] # NoHash
         /\ mp[i].first # mp[i].second
         /\ mp[j].first = mp[i].second
         /\ mp[j].second = mp[i].first) => last.h[i] # last.h[j]

\* The pairs (1, 2) and (2, 1) have both been hashed.
C20_Witness ==
    /\ last.op = "hash"
    /\ last.h["p"] # NoHash
    /\ last.h["q"] # NoHash
    /\ mp["p"] = [first |-> 1, second |-> 2]
    /\ mp["q"] = [first |-> 2, second |-> 1]
    /\ last.h["p"] # last.h["q"]

\* C21: the pair has tuple arity 2; a write through std::get<0> (or the first
\* reference binding) is read back through first and leaves second and the
\* other objects unchanged, likewise for position 1; a read through
\* std::get<I> returns the current value of the member at that position.
C21_TupleAccess ==
    /\ tuple_size = 2
    /\ last.op = "get_write" =>
           /\ last.n \in 0 .. (tuple_size - 1)
           /\ last.n = 0 => /\ mp[last.i].first = last.src.first
                            /\ mp[last.i].second = last.pre[last.i].second
           /\ last.n = 1 => /\ mp[last.i].second = last.src.second
                            /\ mp[last.i].first = last.pre[last.i].first
           /\ \A o \in Objs \ {last.i} : mp[o] = last.pre[o]
    /\ last.op = "get_read" =>
           /\ last.n = 0 => last.src.first = mp[last.i].first
           /\ last.n = 1 => last.src.second = mp[last.i].second
           /\ mp = last.pre

\* std::get<1>(t) = v has changed second while first holds another value.
C21_Witness ==
    /\ last.op = "get_write"
    /\ last.n = 1
    /\ last.pre[last.i].second # last.src.second
    /\ mp[last.i].second = last.src.second
    /\ mp[last.i].first # mp[last.i].second

\* C22: make_pair(x, y) returns a pair with first = x and second = y whose
\* element types carry no const, no rvalue reference and no reference
\* wrapper, and are an lvalue reference exactly for a std::ref argument;
\* an argument passed as an lvalue is left unchanged.
C22_MakePair ==
    last.op = "make_pair" =>
        /\ last.val.first = last.src.first
        /\ last.val.second = last.src.second
        /\ mp[last.i] = IF "ref_wrapper" \in {last.k1, last.k2}
                        THEN last.old ELSE last.val
        /\ last.k1 # "rvalue" => mp[last.j].first = last.src.first
        /\ last.k2 # "rvalue" => mp[last.j].second = last.src.second
        /\ ~last.T1.const /\ ~last.T1.wrapper /\ last.T1.ref # "rvalue"
        /\ ~last.T2.const /\ ~last.T2.wrapper /\ last.T2.ref # "rvalue"
        /\ (last.T1.ref = "lvalue") = (last.k1 = "ref_wrapper")
        /\ (last.T2.ref = "lvalue") = (last.k2 = "ref_wrapper")

\* make_pair(x, std::move(y)) has consumed y and left the lvalue x alone.
C22_Witness ==
    /\ last.op = "make_pair"
    /\ last.k1 = "lvalue"
    /\ last.k2 = "rvalue"
    /\ last.src.first = 1
    /\ last.src.second = 1
    /\ mp[last.i] = last.src
    /\ mp[last.j].first = 1
    /\ mp[last.j].second # last.src.second

\* C23: after default construction both members read as zero.
C23_DefaultCtorZero ==
    last.op = "ctor_default" =>
        /\ mp[last.i].first = 0
        /\ mp[last.i].second = 0

\* An object is default-constructed while the other object holds other values.
C23_Witness ==
    /\ last.op = "ctor_default"
    /\ mp[last.i].first = 0
    /\ mp[last.i].second = 0
    /\ \E o \in Objs : mp[o].first # 0 /\ mp[o].second # 0

\* C29: p = p and p = std::move(p) leave both members of p as they were and
\* execute no element assignment.
C29_SelfAssignNoOp ==
    (last.op \in {"copy_assign", "move_assign"} /\ last.i = last.j) =>
        /\ mp[last.i] = last.src
        /\ last.n = 0

\* p = std::move(p) on a pair holding non-zero values.
C29_Witness ==
    /\ last.op = "move_assign"
    /\ last.i = last.j
    /\ last.src.first # 0
    /\ last.src.second # 0
    /\ mp[last.i] = last.src

\* C30: for pairs of totally ordered elements, neither p < q nor q < p holds
\* exactly when p == q, so exactly one of p < q, p == q, q < p holds; a
\* std::set of pairs holds each inserted value once, in the order of first,
\* then second.
C30_Trichotomy ==
    /\ \A a, b \in DOMAIN mp :
           /\ Incomparable(mp[a], mp[b]) <=> operator_eq(mp[a], mp[b])
           /\ Cardinality({k \in 1 .. 3 :
                  \/ k = 1 /\ operator_lt(mp[a], mp[b])
                  \/ k = 2 /\ operator_eq(mp[a], mp[b])
                  \/ k = 3 /\ operator_lt(mp[b], mp[a])}) = 1
    /\ last.op = "set_insert" =>
           /\ \A a \in DOMAIN mp : \E k \in 1 .. Len(last.set) : last.set[k] = mp[a]
           /\ \A k \in 1 .. Len(last.set) : \E a \in DOMAIN mp : last.set[k] = mp[a]
           /\ \A k \in 1 .. (Len(last.set) - 1) : LexLess(last.set[k], last.set[k + 1])

\* Three pairs, two of them equal, inserted into a set that holds two elements
\* ordered by their second members.
C30_Witness ==
    /\ last.op = "set_insert"
    /\ mp["p"] = mp["r"]
    /\ mp["q"] # mp["p"]
    /\ mp["q"].first = mp["p"].first
    /\ Len(last.set) = 2
    /\ last.set[1].second < last.set[2].second

\* C24: an instantiation of the pair storage with a fixed-size array as the
\* first element type, as the second, or as both, is rejected at compile time.
C24_ArrayRejected ==
    (/\ last.op = "instantiate"
     /\ TypeKind(last.T1) = "array" \/ TypeKind(last.T2) = "array")
        => last.impl.status = "rejected"

\* The value read from the first and from the second slot of a pair_impl object.
ImplValue(x, L) == [first |-> impl_first(x, L), second |-> impl_second(x, L)]

\* C25: a write to first leaves the value read from second as it was, and a
\* write to second the value read from first, on my_stl::pair and on every
\* layout of pair_impl; the written slot reads back the value written.
C25_SlotsIndependent ==
    /\ last.op = "write_first" =>
           /\ mp[last.i].second = last.kept.pair
           /\ impl_second(mp[Impl(last.i)], last.impl) = last.kept.impl
           /\ mp[last.i].first = last.val.pair.first
           /\ impl_first(mp[Impl(last.i)], last.impl) = last.val.impl.first
    /\ last.op = "write_second" =>
           /\ mp[last.i].first = last.kept.pair
           /\ impl_first(mp[Impl(last.i)], last.impl) = last.kept.impl
           /\ mp[last.i].second = last.val.pair.second
           /\ impl_second(mp[Impl(last.i)], last.impl) = last.val.impl.second

\* A write of a new value to the member second of a layout whose first slot
\* is an empty base, and of one with two members whose first holds 1.
C25_Witness ==
    /\ last.op = "write_second"
    /\ last.val.impl.second = 1
    /\ \/ last.impl.first = "base" /\ last.impl.second = "member"
       \/ last.impl.first = "member" /\ last.kept.impl # 1
    /\ impl_second(mp[Impl(last.i)], last.impl) = 1

\* A type is stateless when it is a class without state: not a reference,
\* not an array.
Stateless(T) == TypeKind(T) = "object" /\ T.empty

\* The policy's answer for T agrees with ans and is the same for every type
\* of the same kind, statelessness and finality.
PolicyIs(T, ans) ==
    /\ ans \in BOOLEAN
    /\ ans <=> (Stateless(T) /\ ~T.final)
    /\ TypeKind(T) \in {"reference", "array"} => ~ans
    /\ \A U \in LayoutTypes :
           (/\ TypeKind(U) = TypeKind(T)
            /\ U.empty = T.empty
            /\ U.final = T.final) => (is_empty_and_non_final(U) <=> ans)

\* C26: the elision policy is total, true exactly for the stateless non-final
\* types, false for every reference and array type, and depends on nothing
\* else of the type.
C26_PolicyTotal ==
    last.op = "instantiate" =>
        /\ PolicyIs(last.T1, last.e1)
        /\ PolicyIs(last.T2, last.e2)

\* The policy answered for a final empty class and for a reference to an
\* empty class.
C26_Witness ==
    /\ last.op = "instantiate"
    /\ last.T1 = FinalEmpty
    /\ last.T2 = RefType(Empty1)
    /\ ~last.e1
    /\ ~last.e2

\* C27: the layout of pair_impl<T1, T2> stores a slot as a base sub-object
\* exactly when the policy holds of that slot's own type; a reference in one
\* slot leaves the other slot's elision as the policy says.
C27_LayoutByPolicy ==
    (last.op = "instantiate" /\ last.impl.status = "ok") =>
        /\ (last.impl.first = "base") <=> last.e1
        /\ (last.impl.second = "base") <=> last.e2

\* C28: my_stl::pair<T1, T2> is backed by the layout of pair_impl<T1, T2>, and
\* after every operation the values read from the pair_impl objects are the
\* values the my_stl::pair objects report.
C28_LayoutsEquivalent ==
    (last.op # "declare" /\ last.impl.status = "ok") =>
        /\ last.facade = last.impl
        /\ \A t \in Objs : ImplValue(mp[Impl(t)], last.impl) = mp[t]
        /\ last.op = "read" => last.val.impl = last.val.pair

====
